---- MODULE Spec2Model ----
(***************************************************************************)
(* camera_server.py: the MJPEG streaming sessions (generate_frames, one    *)
(* generator per /video_feed request), the shared recency timestamp        *)
(* bottle_last_seen guarded by bottle_lock, and the /detection_status      *)
(* endpoint.                                                               *)
(*                                                                         *)
(* Time is counted in units of 0.5 s (the backoff of line 227), so the     *)
(* recency window of 1.5 s is 3 units.  Confidences are in percent.        *)
(***************************************************************************)
EXTENDS Integers, Sequences, FiniteSets, TLC

\* ------------------------------------------------------------------ bounds
MaxTime         == 3   \* the latest time of day, in units of 0.5 s
MaxCaptures     == 2   \* Spec: frames the camera delivers, all sessions together
MaxFailures     == 1   \* Spec: exceptions raised, all sessions together
MaxSoloCaptures == 11  \* SpecSession: frames the camera delivers
MaxSoloFailures == 2   \* SpecSession: exceptions raised

\* ------------------------------------------------------- program constants
N               == 8    \* line 168
Threshold       == 50   \* line 196: conf >= 0.5
Window          == 3    \* line 242: age < 1.5
bottle_class_id == 39   \* lines 29-33: index of "bottle" in model.names
OtherClass      == 0    \* any other index of model.names ("person")
InitialLastSeen == 0    \* line 41: bottle_last_seen = 0.0
FrameDelay      == 3    \* line 222: time.sleep(0.03), in hundredths of a second
Backoff         == 50   \* line 227: time.sleep(0.5), in hundredths of a second

\* The concurrent /video_feed requests and /detection_status requests.
Sessions == {1, 2}
Requests == {1, 2}

\* The status requests that poll while both sessions stream.
Polling == {1}

\* One box of a YOLO result: box.cls[0], box.conf[0] (lines 189-190).
Box(c, p) == [cls |-> c, conf |-> p]

\* What model(frame, ...)[0] may hold: boxes is None, or a list of boxes.
BoxLists ==
    { << Box(OtherClass, 90), Box(bottle_class_id, 49) >>,
      << Box(bottle_class_id, 50) >> }

ResultValues ==
    { [has_boxes |-> FALSE, boxes |-> << >>] } \cup
    { [has_boxes |-> TRUE, boxes |-> b] : b \in BoxLists }

\* Contexts that may hold bottle_lock.
Free          == << >>
SessionCtx(s) == << "session", s >>
StatusCtx(r)  == << "status", r >>

VARIABLES
    now,               \* the latest value time.time() returned
    bottle_last_seen,  \* line 41
    bottle_lock,       \* line 42: the context holding it, or Free
    pc,                \* pc[s]: where session s is in generate_frames
    frame_count,       \* line 153, per session
    last_results,      \* line 154, per session: << >> is None, << r >> a result
    any_bottle,        \* line 183, per session
    slept,             \* per session: the length of its latest time.sleep
    st_pc,             \* st_pc[r]: where status request r is in detection_status
    st_last,           \* line 240: the local `last`
    response,          \* the JSON answer to request r, << >> until it is given
    \* history, not program state
    infer_calls,       \* per session: calls of model(frame, ...) so far
    pending_calls,     \* per session: failed calls at the current frame index
    log,               \* per session: one record per counted frame
    fail_kind,         \* per session: the stage of the latest exception
    peer_closed,       \* per session: the client closed the transport
    recorded,          \* times at which bottle_last_seen was written
    printed,           \* per session: the value line 208 printed last
    st_seen,           \* per request: `recorded` when it read the timestamp
    captures_left,     \* frames the camera will still deliver
    failures_left      \* exceptions that may still be raised

shared  == << now, bottle_last_seen, bottle_lock >>
session == << pc, frame_count, last_results, any_bottle, slept >>
status  == << st_pc, st_last, response >>
history == << infer_calls, pending_calls, log, fail_kind, peer_closed,
              recorded, printed, st_seen, captures_left, failures_left >>
vars    == << shared, session, status, history >>

\* ------------------------------------------------------------ pure helpers

\* Line 169 without the cadence test: the model runs on every frame.
ShouldInfer_every(fc) == fc >= 0

\* Line 169 with the counter tested after its increment.
ShouldInfer_late(fc) == (fc + 1) % N = 0

\* Line 169: frame_count % N == 0.
ShouldInfer(fc) == fc % N = 0

\* Line 196, over the loop of line 185.
Qualifies(box) == box.cls = bottle_class_id /\ box.conf >= Threshold

AnyBottle(boxes) == \E i \in DOMAIN boxes : Qualifies(boxes[i])

\* Line 180: last_results is not None and last_results.boxes is not None.
HasBoxes(lr) == lr # << >> /\ lr[1].has_boxes

\* Lines 241-242.
IsActive(t, last) == t - last < Window

\* time.time(): the system clock, which does not go backwards.
Clock == now .. MaxTime

\* The identity of the cached object within its session, 0 for None.
ObjOf(lr) == IF lr = << >> THEN 0 ELSE lr[1].id[2]

\* ------------------------------------------------------------------- Init

Start(cap, fail, t0) ==
    /\ now = t0
    /\ bottle_last_seen = InitialLastSeen
    /\ bottle_lock = Free
    /\ pc = [s \in Sessions |-> "idle"]
    /\ frame_count = [s \in Sessions |-> 0]
    /\ last_results = [s \in Sessions |-> << >>]
    /\ any_bottle = [s \in Sessions |-> FALSE]
    /\ slept = [s \in Sessions |-> 0]
    /\ st_pc = [r \in Requests |-> "idle"]
    /\ st_last = [r \in Requests |-> 0]
    /\ response = [r \in Requests |-> << >>]
    /\ infer_calls = [s \in Sessions |-> 0]
    /\ pending_calls = [s \in Sessions |-> 0]
    /\ log = [s \in Sessions |-> << >>]
    /\ fail_kind = [s \in Sessions |-> "none"]
    /\ peer_closed = [s \in Sessions |-> FALSE]
    /\ recorded = {}
    /\ printed = [s \in Sessions |-> << >>]
    /\ st_seen = [r \in Requests |-> {}]
    /\ captures_left = cap
    /\ failures_left = fail

Init == Start(MaxCaptures, MaxFailures, 0)

\* --------------------------------------------------------- generate_frames

\* The loop without its except clause: the exception ends the generator.
Raise_escapes(s, stage) ==
    /\ failures_left > 0
    /\ failures_left' = failures_left - 1
    /\ pc' = [pc EXCEPT ![s] = "closed"]
    /\ fail_kind' = [fail_kind EXCEPT ![s] = stage]

\* The except clause of lines 224-227: any Exception raised at `stage`.
Raise(s, stage) ==
    /\ failures_left > 0
    /\ failures_left' = failures_left - 1
    /\ pc' = [pc EXCEPT ![s] = "backoff"]
    /\ fail_kind' = [fail_kind EXCEPT ![s] = stage]

\* video_feed, lines 229-234, and lines 153-160 at the first next().
VideoFeed(s) ==
    /\ pc[s] = "idle"
    /\ pc' = [pc EXCEPT ![s] = "capture"]
    /\ frame_count' = [frame_count EXCEPT ![s] = 0]
    /\ last_results' = [last_results EXCEPT ![s] = << >>]
    /\ UNCHANGED << shared, any_bottle, slept, status, history >>

\* Line 165.
CaptureOk(s) ==
    /\ pc[s] = "capture"
    /\ captures_left > 0
    /\ captures_left' = captures_left - 1
    /\ pc' = [pc EXCEPT ![s] = "detect"]
    /\ UNCHANGED << shared, frame_count, last_results, any_bottle, slept, status,
                    infer_calls, pending_calls, log, fail_kind, recorded, printed,
                    st_seen, failures_left,
                    peer_closed >>

\* Line 173 moved to the top of the loop body: the frame is counted, then
\* the capture raises.
CaptureFail_counted(s) ==
    /\ pc[s] = "capture"
    /\ Raise(s, "capture")
    /\ frame_count' = [frame_count EXCEPT ![s] = @ + 1]
    /\ UNCHANGED << shared, last_results, any_bottle, slept, status,
                    infer_calls, pending_calls, log, recorded, printed,
                    st_seen, captures_left, peer_closed >>

\* Line 165 raises.
CaptureFail(s) ==
    /\ pc[s] = "capture"
    /\ Raise(s, "capture")
    /\ UNCHANGED << shared, frame_count, last_results, any_bottle, slept, status,
                    infer_calls, pending_calls, log, recorded, printed, st_seen,
                    captures_left,
                    peer_closed >>

\* The record of a frame that got an index (line 173).
Counted(s, lr) ==
    [calls |-> pending_calls[s] + (IF ShouldInfer(frame_count[s]) THEN 1 ELSE 0),
     obj |-> ObjOf(lr), rendered |-> 0, emitted |-> FALSE]

\* last_results as a module-level variable: one cache for all sessions.
InferOk_shared(s) ==
    /\ pc[s] = "detect"
    /\ ShouldInfer(frame_count[s])
    /\ \E r \in ResultValues :
         LET lr == << [id |-> << s, infer_calls[s] + 1 >>,
                       has_boxes |-> r.has_boxes, boxes |-> r.boxes] >>
         IN /\ last_results' = [t \in Sessions |-> lr]
            /\ log' = [log EXCEPT ![s] = Append(@, Counted(s, lr))]
    /\ infer_calls' = [infer_calls EXCEPT ![s] = @ + 1]
    /\ pending_calls' = [pending_calls EXCEPT ![s] = 0]
    /\ frame_count' = [frame_count EXCEPT ![s] = @ + 1]
    /\ pc' = [pc EXCEPT ![s] = "render"]
    /\ UNCHANGED << shared, any_bottle, slept, status, fail_kind, recorded, printed, st_seen,
                    captures_left, failures_left, peer_closed >>

\* Lines 171-173 without line 172: the model returns and its result is
\* dropped.
InferOk_unkept(s) ==
    /\ pc[s] = "detect"
    /\ ShouldInfer(frame_count[s])
    /\ log' = [log EXCEPT ![s] = Append(@, Counted(s, last_results[s]))]
    /\ infer_calls' = [infer_calls EXCEPT ![s] = @ + 1]
    /\ pending_calls' = [pending_calls EXCEPT ![s] = 0]
    /\ frame_count' = [frame_count EXCEPT ![s] = @ + 1]
    /\ pc' = [pc EXCEPT ![s] = "render"]
    /\ UNCHANGED << shared, last_results, any_bottle, slept, status,
                    fail_kind, recorded, printed, st_seen,
                    captures_left, failures_left, peer_closed >>

\* Lines 169-173, the model returns.
InferOk(s) ==
    /\ pc[s] = "detect"
    /\ ShouldInfer(frame_count[s])
    /\ \E r \in ResultValues :
         LET lr == << [id |-> << s, infer_calls[s] + 1 >>,
                       has_boxes |-> r.has_boxes, boxes |-> r.boxes] >>
         IN /\ last_results' = [last_results EXCEPT ![s] = lr]
            /\ log' = [log EXCEPT ![s] = Append(@, Counted(s, lr))]
    /\ infer_calls' = [infer_calls EXCEPT ![s] = @ + 1]
    /\ pending_calls' = [pending_calls EXCEPT ![s] = 0]
    /\ frame_count' = [frame_count EXCEPT ![s] = @ + 1]
    /\ pc' = [pc EXCEPT ![s] = "render"]
    /\ UNCHANGED << shared, any_bottle, slept, status, fail_kind, recorded, printed, st_seen,
                    captures_left, failures_left,
                    peer_closed >>

\* Line 173 moved before line 171: the frame is counted, then the call raises.
InferFail_counted(s) ==
    /\ pc[s] = "detect"
    /\ ShouldInfer(frame_count[s])
    /\ Raise(s, "infer")
    /\ infer_calls' = [infer_calls EXCEPT ![s] = @ + 1]
    /\ pending_calls' = [pending_calls EXCEPT ![s] = @ + 1]
    /\ frame_count' = [frame_count EXCEPT ![s] = @ + 1]
    /\ UNCHANGED << shared, last_results, any_bottle, slept, status, log, recorded, printed,
                    st_seen, captures_left, peer_closed >>

\* Line 171 raises: lines 172-173 are skipped.
InferFail(s) ==
    /\ pc[s] = "detect"
    /\ ShouldInfer(frame_count[s])
    /\ Raise(s, "infer")
    /\ infer_calls' = [infer_calls EXCEPT ![s] = @ + 1]
    /\ pending_calls' = [pending_calls EXCEPT ![s] = @ + 1]
    /\ UNCHANGED << shared, frame_count, last_results, any_bottle, slept, status,
                    log, recorded, printed, st_seen, captures_left,
                    peer_closed >>

\* Lines 169, 173: not a cadence boundary.
Reuse(s) ==
    /\ pc[s] = "detect"
    /\ ~ShouldInfer(frame_count[s])
    /\ frame_count' = [frame_count EXCEPT ![s] = @ + 1]
    /\ log' = [log EXCEPT ![s] = Append(@, Counted(s, last_results[s]))]
    /\ pc' = [pc EXCEPT ![s] = "render"]
    /\ UNCHANGED << shared, last_results, any_bottle, slept, status, infer_calls,
                    pending_calls, fail_kind, recorded, printed, st_seen,
                    captures_left, failures_left,
                    peer_closed >>

\* Lines 176-205: draw the cached result, decide any_bottle.
RenderOk(s) ==
    /\ pc[s] = "render"
    /\ LET lr == last_results[s]
           ab == IF HasBoxes(lr) THEN AnyBottle(lr[1].boxes) ELSE any_bottle[s]
       IN /\ any_bottle' = [any_bottle EXCEPT ![s] = ab]
          /\ pc' = [pc EXCEPT ![s] =
                      IF HasBoxes(lr) /\ ab THEN "lock" ELSE "encode"]
          /\ log' = [log EXCEPT ![s][Len(log[s])].rendered =
                      IF lr = << >> THEN -1 ELSE ObjOf(lr)]
    /\ UNCHANGED << shared, frame_count, last_results, slept, status, infer_calls,
                    pending_calls, fail_kind, recorded, printed, st_seen,
                    captures_left, failures_left,
                    peer_closed >>

\* Lines 176-202 raise (Image.fromarray, draw.rectangle, draw.text).
RenderFail(s) ==
    /\ pc[s] = "render"
    /\ Raise(s, "render")
    /\ UNCHANGED << shared, frame_count, last_results, any_bottle, slept, status,
                    infer_calls, pending_calls, log, recorded, printed,
                    st_seen, captures_left,
                    peer_closed >>

\* Line 206 with a lock created at each use (`with threading.Lock():`): the
\* block is entered whoever is inside another one.
AcquireLock_own(s) ==
    /\ pc[s] = "lock"
    /\ bottle_lock' = SessionCtx(s)
    /\ pc' = [pc EXCEPT ![s] = "write"]
    /\ UNCHANGED << now, bottle_last_seen, frame_count, last_results,
                    any_bottle, slept, status, history >>

\* Line 206: with bottle_lock, entered.
AcquireLock(s) ==
    /\ pc[s] = "lock"
    /\ bottle_lock = Free
    /\ bottle_lock' = SessionCtx(s)
    /\ pc' = [pc EXCEPT ![s] = "write"]
    /\ UNCHANGED << now, bottle_last_seen, frame_count, last_results,
                    any_bottle, slept, status, history >>

\* Lines 206-207 as bottle_lock.acquire() with no release: the session goes
\* on to print, encode, emit, sleep and capture as the holder of the lock.
WriteSeen_holds(s) ==
    /\ pc[s] = "write"
    /\ \E t \in Clock :
         /\ now' = t
         /\ bottle_last_seen' = t
         /\ recorded' = recorded \cup {t}
    /\ pc' = [pc EXCEPT ![s] = "print"]
    /\ UNCHANGED << bottle_lock, frame_count, last_results, any_bottle, slept,
                    status, infer_calls, pending_calls, log, fail_kind,
                    printed, st_seen, captures_left, failures_left,
                    peer_closed >>

\* time.time() called before line 206: the session stores a reading of the
\* clock taken before it waited for the lock.
WriteSeen_early(s) ==
    /\ pc[s] = "write"
    /\ \E t \in 0 .. now :
         /\ bottle_last_seen' = t
         /\ recorded' = recorded \cup {t}
    /\ bottle_lock' = Free
    /\ pc' = [pc EXCEPT ![s] = "print"]
    /\ UNCHANGED << now, frame_count, last_results, any_bottle, slept, status,
                    infer_calls, pending_calls, log, fail_kind, printed,
                    st_seen, captures_left, failures_left,
                    peer_closed >>

\* Line 207 and the exit of the with block.
WriteSeen(s) ==
    /\ pc[s] = "write"
    /\ \E t \in Clock :
         /\ now' = t
         /\ bottle_last_seen' = t
         /\ recorded' = recorded \cup {t}
    /\ bottle_lock' = Free
    /\ pc' = [pc EXCEPT ![s] = "print"]
    /\ UNCHANGED << frame_count, last_results, any_bottle, slept, status,
                    infer_calls, pending_calls, log, fail_kind, printed,
                    st_seen, captures_left, failures_left,
                    peer_closed >>

\* Line 208: the f-string reads bottle_last_seen after the with block of
\* lines 206-207 was left.
PrintSeen(s) ==
    /\ pc[s] = "print"
    /\ printed' = [printed EXCEPT ![s] = << bottle_last_seen >>]
    /\ pc' = [pc EXCEPT ![s] = "encode"]
    /\ UNCHANGED << shared, frame_count, last_results, any_bottle, slept, status,
                    infer_calls, pending_calls, log, fail_kind, recorded,
                    st_seen, captures_left, failures_left,
                    peer_closed >>

\* Lines 211-219: the frame is encoded, the chunk is handed to the server and
\* the generator suspends at the yield.
EncodeOk(s) ==
    /\ pc[s] = "encode"
    /\ log' = [log EXCEPT ![s][Len(log[s])].emitted = TRUE]
    /\ pc' = [pc EXCEPT ![s] = "suspended"]
    /\ UNCHANGED << shared, frame_count, last_results, any_bottle, slept, status,
                    infer_calls, pending_calls, fail_kind, recorded, printed, st_seen,
                    captures_left, failures_left,
                    peer_closed >>

\* The yield of line 216 in a finally clause: the chunk goes out although the
\* encoding raised.
EncodeFail_yields(s) ==
    /\ pc[s] = "encode"
    /\ Raise(s, "encode")
    /\ log' = [log EXCEPT ![s][Len(log[s])].emitted = TRUE]
    /\ UNCHANGED << shared, frame_count, last_results, any_bottle, slept, status,
                    infer_calls, pending_calls, recorded, printed, st_seen,
                    captures_left, peer_closed >>

\* Lines 211-213 raise: line 216 is not reached.
EncodeFail(s) ==
    /\ pc[s] = "encode"
    /\ Raise(s, "encode")
    /\ UNCHANGED << shared, frame_count, last_results, any_bottle, slept, status,
                    infer_calls, pending_calls, log, recorded, printed, st_seen,
                    captures_left,
                    peer_closed >>

\* The server asks for the next chunk: execution goes on at line 222.
Resume(s) ==
    /\ pc[s] = "suspended"
    /\ pc' = [pc EXCEPT ![s] = "sleep"]
    /\ fail_kind' = [fail_kind EXCEPT ![s] = "none"]
    /\ UNCHANGED << shared, frame_count, last_results, any_bottle, slept, status,
                    infer_calls, pending_calls, log, recorded, printed,
                    st_seen, captures_left, failures_left,
                    peer_closed >>

\* Line 224 as a bare `except:`: GeneratorExit is caught and the loop goes on.
Disconnect_swallowed(s) ==
    /\ pc[s] = "suspended"
    /\ peer_closed' = [peer_closed EXCEPT ![s] = TRUE]
    /\ pc' = [pc EXCEPT ![s] = "backoff"]
    /\ UNCHANGED << shared, frame_count, last_results, any_bottle, slept, status,
                    infer_calls, pending_calls, log, fail_kind, recorded, printed,
                    st_seen, captures_left, failures_left >>

\* The peer closed the transport: the server closes the generator, which
\* raises GeneratorExit at the yield of line 216.  GeneratorExit is no
\* Exception, so line 224 does not catch it.
Disconnect(s) ==
    /\ pc[s] = "suspended"
    /\ peer_closed' = [peer_closed EXCEPT ![s] = TRUE]
    /\ pc' = [pc EXCEPT ![s] = "closed"]
    /\ UNCHANGED << shared, frame_count, last_results, any_bottle, slept, status,
                    infer_calls, pending_calls, log, fail_kind, recorded, printed,
                    st_seen, captures_left, failures_left >>

\* Line 222.
Sleep(s) ==
    /\ pc[s] = "sleep"
    /\ slept' = [slept EXCEPT ![s] = FrameDelay]
    /\ pc' = [pc EXCEPT ![s] = "capture"]
    /\ UNCHANGED << shared, frame_count, last_results, any_bottle, status,
                    history >>

\* Line 227 with the delay of line 222: time.sleep(0.03) after a failure.
BackoffSleep_short(s) ==
    /\ pc[s] = "backoff"
    /\ slept' = [slept EXCEPT ![s] = FrameDelay]
    /\ pc' = [pc EXCEPT ![s] = "capture"]
    /\ UNCHANGED << shared, frame_count, last_results, any_bottle, status,
                    history >>

\* A `break` after line 227: the loop ends after the backoff.
BackoffSleep_breaks(s) ==
    /\ pc[s] = "backoff"
    /\ pc' = [pc EXCEPT ![s] = "closed"]
    /\ UNCHANGED << shared, frame_count, last_results, any_bottle, slept, status,
                    history >>

\* Lines 226-227.
BackoffSleep(s) ==
    /\ pc[s] = "backoff"
    /\ slept' = [slept EXCEPT ![s] = Backoff]
    /\ pc' = [pc EXCEPT ![s] = "capture"]
    /\ UNCHANGED << shared, frame_count, last_results, any_bottle, status,
                    history >>

\* -------------------------------------------------------- detection_status

\* Line 239: with bottle_lock, entered.
StatusAcquire(r) ==
    /\ st_pc[r] = "idle"
    /\ bottle_lock = Free
    /\ bottle_lock' = StatusCtx(r)
    /\ st_pc' = [st_pc EXCEPT ![r] = "locked"]
    /\ response' = [response EXCEPT ![r] = << >>]
    /\ UNCHANGED << now, bottle_last_seen, session, st_last, history >>

\* Line 240 followed by `bottle_last_seen = 0.0`: the read consumes the
\* detection.
StatusRead_consumes(r) ==
    /\ st_pc[r] = "locked"
    /\ st_last' = [st_last EXCEPT ![r] = bottle_last_seen]
    /\ st_seen' = [st_seen EXCEPT ![r] = recorded]
    /\ bottle_last_seen' = InitialLastSeen
    /\ bottle_lock' = Free
    /\ st_pc' = [st_pc EXCEPT ![r] = "age"]
    /\ UNCHANGED << now, session, response, infer_calls,
                    pending_calls, log, fail_kind, recorded, printed,
                    captures_left, failures_left,
                    peer_closed >>

\* Line 240 and the exit of the with block.
StatusRead(r) ==
    /\ st_pc[r] = "locked"
    /\ st_last' = [st_last EXCEPT ![r] = bottle_last_seen]
    /\ st_seen' = [st_seen EXCEPT ![r] = recorded]
    /\ bottle_lock' = Free
    /\ st_pc' = [st_pc EXCEPT ![r] = "age"]
    /\ UNCHANGED << now, bottle_last_seen, session, response, infer_calls,
                    pending_calls, log, fail_kind, recorded, printed,
                    captures_left, failures_left,
                    peer_closed >>

\* Lines 241-244.
StatusRespond(r) ==
    /\ st_pc[r] = "age"
    /\ \E t \in Clock :
         /\ now' = t
         /\ response' = [response EXCEPT ![r] =
                           << [bottle |-> IsActive(t, st_last[r])] >>]
    /\ st_pc' = [st_pc EXCEPT ![r] = "idle"]
    /\ st_last' = [st_last EXCEPT ![r] = 0]
    /\ st_seen' = [st_seen EXCEPT ![r] = {}]
    /\ UNCHANGED << bottle_last_seen, bottle_lock, session, infer_calls, pending_calls, log,
                    fail_kind, recorded, printed, captures_left, failures_left,
                    peer_closed >>

\* ------------------------------------------------------------------- Next

SessionStep(s) ==
    \/ VideoFeed(s)
    \/ CaptureOk(s)
    \/ CaptureFail(s)
    \/ InferOk(s)
    \/ InferFail(s)
    \/ Reuse(s)
    \/ RenderOk(s)
    \/ RenderFail(s)
    \/ AcquireLock(s)
    \/ WriteSeen(s)
    \/ PrintSeen(s)
    \/ EncodeOk(s)
    \/ EncodeFail(s)
    \/ Resume(s)
    \/ Disconnect(s)
    \/ Sleep(s)
    \/ BackoffSleep(s)

StatusStep(r) ==
    \/ StatusAcquire(r)
    \/ StatusRead(r)
    \/ StatusRespond(r)

Next ==
    \/ \E s \in Sessions : SessionStep(s)
    \/ \E r \in Polling : StatusStep(r)

Spec == Init /\ [][Next]_vars

\* One streaming session on its own, over more frames than a cadence period.
Solo == 1

InitSession == Start(MaxSoloCaptures, MaxSoloFailures, MaxTime)

NextSession == SessionStep(Solo)

SpecSession == InitSession /\ [][NextSession]_vars

\* One streaming session and all the status requests: readers contend with
\* each other and with the writer for bottle_lock.
NextReaders ==
    \/ SessionStep(Solo)
    \/ \E r \in Requests : StatusStep(r)

SpecReaders == Init /\ [][NextReaders]_vars

\* Scheduling under app.run(threaded=True): a thread inside a with
\* bottle_lock block runs on to the end of the block, and the thread of a
\* status request runs whenever it can.  Nothing is assumed of a session
\* outside the block: it may stay in capture_array() or in model() forever.
Fairness ==
    /\ \A s \in Sessions : WF_vars(WriteSeen(s))
    /\ \A r \in Polling : WF_vars(StatusStep(r))

InitLive == Start(MaxCaptures, MaxFailures, MaxTime)

SpecLive == InitLive /\ [][Next]_vars /\ Fairness

\* All the sessions and all the status requests contend for bottle_lock;
\* the clock stands at its latest value.
NextAll ==
    \/ \E s \in Sessions : SessionStep(s)
    \/ \E r \in Requests : StatusStep(r)

InitAll == Start(MaxCaptures, MaxFailures, MaxTime)

SpecAll == InitAll /\ [][NextAll]_vars

\* ------------------------------------------------- vocabulary of the claims

\* The private state of a streaming session.
Private(s) == << pc[s], frame_count[s], last_results[s], any_bottle[s] >>

\* The record of the frame session s is working on (the latest counted one).
Current(s) == log[s][Len(log[s])]

RECURSIVE SumCalls(_, _, _)
SumCalls(l, i, j) == IF i > j THEN 0 ELSE l[i].calls + SumCalls(l, i + 1, j)

\* The windows of N consecutive counted frames of a log: their first places.
Windows(l) == 1 .. (Len(l) - N + 1)

\* The place in the log of the cadence boundary at or before place j.
Boundary(j) == N * ((j - 1) \div N) + 1

\* Steps of session s in which line 171, 165 or 212 raised.
InferRaised(s) == pc[s] = "detect" /\ failures_left' # failures_left

CaptureRaised(s) == pc[s] = "capture" /\ failures_left' # failures_left

EncodeRaised(s) == pc[s] = "encode" /\ failures_left' # failures_left

\* ----------------------------------------------------------------------- C1

\* C1, as stated: any N consecutive frames of a session contain exactly one
\* inference call, and the other N-1 frames that were rendered rendered one
\* and the same result object.
C1_AnyWindowOneCallOneObject ==
    \A s \in Sessions : \A i \in Windows(log[s]) :
        LET l == log[s]
            W == i .. (i + N - 1)
        IN /\ SumCalls(l, i, i + N - 1) = 1
           /\ \A j, k \in W :
                (l[j].calls = 0 /\ l[k].calls = 0
                    /\ l[j].rendered # 0 /\ l[k].rendered # 0)
                => l[j].rendered = l[k].rendered

\* C1, amended: any N consecutive counted frames contain exactly one
\* inference call that returned, at the frame whose index is a multiple of N
\* (calls that raised are repeated at that same index); a rendered frame
\* renders the object returned at the latest multiple of N at or before its
\* index, so the frames of one period render the identical object and the
\* frames of different periods render different objects.
C1_OneReturnedCallPerPeriod ==
    \A s \in Sessions :
        LET l == log[s]
        IN /\ \A i \in Windows(l) :
                Cardinality({j \in i .. (i + N - 1) : l[j].calls > 0}) = 1
           /\ \A j \in DOMAIN l :
                /\ (l[j].calls > 0) <=> (j = Boundary(j))
                /\ l[j].obj = l[Boundary(j)].obj
                /\ l[j].rendered # 0 => l[j].rendered = l[Boundary(j)].obj
                /\ \A k \in DOMAIN l :
                     Boundary(k) # Boundary(j) => l[k].obj # l[j].obj

\* A window that straddles the second cadence boundary has been rendered:
\* frame N-1 with the first object, frame N+1 with the second.
C1_Witness ==
    \E s \in Sessions :
        /\ Len(log[s]) >= N + 2
        /\ log[s][N].rendered = log[s][1].obj
        /\ log[s][N + 2].rendered = log[s][N + 1].obj
        /\ log[s][N + 1].obj # log[s][1].obj
        /\ log[s][N + 1].calls = 2

\* ----------------------------------------------------------------------- C2

C4_WriteOnlyWhenDetectorRan ==
    \A s \in Sessions :
        pc[s] \in {"lock", "write"} => Current(s).calls > 0

\* ----------------------------------------------------------------------- C5

\* C5, as stated: when the inference call raises, the session goes on to
\* render that frame with the cache it had.
C5_RendersAfterInferenceFailure ==
    [][\A s \in Sessions :
          InferRaised(s)
          => pc'[s] = "render" /\ last_results'[s] = last_results[s]]_vars

\* C5, amended: an inference failure does not end the session and leaves its
\* frame counter and cache unchanged, but the frame of that iteration is
\* dropped (not counted, not rendered, no chunk): the session backs off,
\* captures again and calls the detector again at the same frame index, and
\* renders only once a call has returned.
C5_InferenceFailureDropsFrameAndRetries ==
    /\ [][\A s \in Sessions :
            InferRaised(s)
            => /\ pc'[s] = "backoff"
               /\ ~peer_closed'[s]
               /\ frame_count'[s] = frame_count[s]
               /\ last_results'[s] = last_results[s]
               /\ log'[s] = log[s]]_vars
    /\ [](\A s \in Sessions :
            /\ (pending_calls[s] > 0 /\ pc[s] = "detect")
                  => ShouldInfer(frame_count[s])
            /\ (pending_calls[s] > 0 /\ pc[s] # "closed")
                  => pc[s] \in {"backoff", "capture", "detect"})

\* An inference call raised, the repeated call returned, and the frame has
\* been emitted.
C5_Witness ==
    \E s \in Sessions :
        /\ pc[s] = "suspended"
        /\ fail_kind[s] = "infer"
        /\ Current(s).calls = 2
        /\ Current(s).emitted

\* ----------------------------------------------------------------------- C6

\* C6: a capture failure does not end the session: the session backs off
\* with its frame counter and cache unchanged, and the backoff leads to the
\* next capture and nowhere else.
C6_CaptureFailureBacksOffAndRetries ==
    [][\A s \in Sessions :
          /\ CaptureRaised(s)
             => /\ pc'[s] = "backoff"
                /\ ~peer_closed'[s]
                /\ frame_count'[s] = frame_count[s]
                /\ last_results'[s] = last_results[s]
                /\ log'[s] = log[s]
          /\ (pc[s] = "backoff" /\ pc'[s] # "backoff")
             => pc'[s] = "capture"]_vars

\* A capture failed and the session has since emitted a chunk.
C6_Witness ==
    \E s \in Sessions :
        /\ pc[s] = "suspended"
        /\ fail_kind[s] = "capture"
        /\ Current(s).emitted

\* ----------------------------------------------------------------------- C7

\* C7: an encoding failure emits no chunk for its frame and does not end the
\* session; a frame that was not emitted when the next one is counted is
\* never emitted, and chunks are emitted for the frames after it.
C7_EncodingFailureDropsFrame ==
    [][\A s \in Sessions :
          /\ EncodeRaised(s)
             => /\ pc'[s] = "backoff"
                /\ ~peer_closed'[s]
                /\ ~Current(s).emitted
                /\ log'[s] = log[s]
          /\ \A k \in DOMAIN log[s] :
                k < Len(log'[s]) => log'[s][k].emitted = log[s][k].emitted]_vars

\* The encoding of a frame failed, no chunk was emitted for it, and the next
\* frame has been emitted.
C7_Witness ==
    \E s \in Sessions :
        /\ pc[s] = "suspended"
        /\ fail_kind[s] = "encode"
        /\ Len(log[s]) >= 2
        /\ ~log[s][Len(log[s]) - 1].emitted
        /\ Current(s).emitted

\* ----------------------------------------------------------------------- C8

\* C8: once the peer of a session has closed the transport the session is
\* closed for good, holds no lock, and nothing of it changes again; the step
\* that closes it changes nothing of any other session, of the status
\* requests or of the shared timestamp and lock.
C8_DisconnectEndsThatSessionOnly ==
    /\ [](\A s \in Sessions :
            peer_closed[s] => pc[s] = "closed" /\ bottle_lock # SessionCtx(s))
    /\ [][\A s \in Sessions :
            /\ pc[s] = "closed"
               => /\ Private(s)' = Private(s)
                  /\ log'[s] = log[s]
                  /\ infer_calls'[s] = infer_calls[s]
            /\ (pc[s] # "closed" /\ pc'[s] = "closed")
               => /\ \A t \in Sessions \ {s} : Private(t)' = Private(t)
                  /\ UNCHANGED << status, bottle_last_seen, bottle_lock >>]_vars

\* One session is closed; the other one has emitted a chunk and a status
\* request has been answered.
C8_Witness ==
    \E s, t \in Sessions : \E r \in Requests :
        /\ s # t
        /\ pc[s] = "closed"
        /\ pc[t] = "suspended"
        /\ Current(t).emitted
        /\ response[r] # << >>

\* ----------------------------------------------------------------------- C9

\* C9: a session is closed only if its peer closed the transport: no
\* capture, inference, render or encoding failure closes it.
C9_ClosedOnlyByPeer ==
    \A s \in Sessions : pc[s] = "closed" => peer_closed[s]

\* Every exception the bound allows has been raised, and the session has
\* emitted a chunk after the last of them.
C9_Witness ==
    \E s \in Sessions :
        /\ failures_left = 0
        /\ fail_kind[s] # "none"
        /\ pc[s] = "suspended"
        /\ Current(s).emitted

\* ---------------------------------------------------------------------- C10

\* C10: a step changes the private state (position, frame counter, cache) of
\* at most one session; a session's cache holds only results its own
\* inference calls returned; its frame counter counts its own frames.
C10_SessionsIsolated ==
    /\ [][\A s, t \in Sessions :
            (s # t /\ Private(s)' # Private(s)) => Private(t)' = Private(t)]_vars
    /\ [](\A s \in Sessions :
            /\ frame_count[s] = Len(log[s])
            /\ last_results[s] # << >>
               => /\ last_results[s][1].id[1] = s
                  /\ last_results[s][1].id[2] <= infer_calls[s])

\* Both sessions run, each with a cache of its own, the two caches holding
\* different detections, one session having failed.
C10_Witness ==
    /\ last_results[1] # << >>
    /\ last_results[2] # << >>
    /\ last_results[1][1].boxes # last_results[2][1].boxes
    /\ fail_kind[1] # "none"
    /\ pc[2] = "suspended"

\* --------------------------------------------------------------------- C11
\* C11: every read and every write of bottle_last_seen, in the sessions
\* (the write of line 207, the read of line 208) and in the status endpoint
\* (the read of line 240), is a step of the context that holds bottle_lock.
C11_EveryAccessUnderLock ==
    [][ /\ \A s \in Sessions :
             (WriteSeen(s) \/ PrintSeen(s)) => bottle_lock = SessionCtx(s)
        /\ \A r \in Requests :
             StatusRead(r) => bottle_lock = StatusCtx(r) ]_vars

\* --------------------------------------------------------------------- C12
\* The contexts inside a `with bottle_lock:` block (lines 206-207, 239-240).
InsideLock ==
    { SessionCtx(s) : s \in { x \in Sessions : pc[x] = "write" } } \cup
    { StatusCtx(r) : r \in { x \in Requests : st_pc[x] = "locked" } }

\* C12: with concurrent status readers and writing sessions, at most one
\* context is inside the bottle_lock critical section at a time, it is the
\* holder of the lock, and the value a status request has read is the
\* initial value or the value of a write made before the read.
C12_OneInsideAndWholeValues ==
    /\ Cardinality(InsideLock) <= 1
    /\ \A c \in InsideLock : bottle_lock = c
    /\ InsideLock = {} => bottle_lock = Free
    /\ \A r \in Requests :
         st_pc[r] = "age" => st_last[r] \in {InitialLastSeen} \cup st_seen[r]

\* A request has read a written value, the other request is inside the
\* critical section, and a session that has a detection to record waits.
C12_Witness ==
    \E r, q \in Requests : \E s \in Sessions :
        /\ st_pc[r] = "age" /\ st_last[r] \in st_seen[r]
        /\ st_pc[q] = "locked"
        /\ pc[s] = "lock"

\* --------------------------------------------------------------------- C13
\* C13: under any interleaving of the writes of concurrent sessions, with a
\* clock that does not go backwards, the stored bottle_last_seen never
\* decreases from one state to the next.
C13_LastSeenNeverDecreases ==
    [][ bottle_last_seen' >= bottle_last_seen ]_vars

\* Both sessions have written, at different times, and the later value is
\* the stored one.
C13_Witness ==
    /\ \A s \in Sessions : pc[s] \in {"print", "encode", "suspended"}
    /\ \A s \in Sessions : any_bottle[s]
    /\ Cardinality(recorded) = 2
    /\ \A t \in recorded : bottle_last_seen >= t
    /\ bottle_last_seen > InitialLastSeen

\* --------------------------------------------------------------------- C14
\* C14: a status request never waits on the capture/inference pipeline.  A
\* session holds bottle_lock only at line 207, never while it captures,
\* infers, renders, encodes, emits or sleeps; so under fair scheduling every
\* status request returns, again and again, whatever the sessions do
\* outside the critical section, staying in capture or inference forever
\* included.
C14_StatusNeverWaitsOnPipeline ==
    /\ [](\A s \in Sessions : bottle_lock = SessionCtx(s) => pc[s] = "write")
    /\ \A r \in Polling : []<>(st_pc[r] = "idle" /\ response[r] # << >>)

\* Every session is in capture or inference, one of them with a detection
\* recorded before, and the status request has its answer.
C14_Witness ==
    /\ \A s \in Sessions : pc[s] \in {"capture", "detect"}
    /\ recorded # {}
    /\ \E r \in Polling : st_pc[r] = "idle" /\ response[r] # << >>

\* --------------------------------------------------------------------- C15
\* C15: the status endpoint is read-only and idempotent.  No step of a
\* detection_status call changes bottle_last_seen, a session's frame counter
\* or a session's cached result; and when no write was made since the call
\* read the timestamp, its answer is fixed by the clock value it reads and
\* the stored timestamp alone, so two calls at the same clock value with no
\* write between them give the same answer.
C15_StatusReadOnlyAndIdempotent ==
    [][ \A r \in Requests :
          StatusStep(r) =>
            /\ UNCHANGED << bottle_last_seen, frame_count, last_results >>
            /\ (StatusRespond(r) /\ st_seen[r] = recorded) =>
                 response'[r] =
                   << [bottle |-> now' - bottle_last_seen < Window] >> ]_vars

\* Both requests have answered, and agree, after the session counted a
\* frame, cached its result and recorded a detection.
C15_Witness ==
    /\ \A r \in Requests : st_pc[r] = "idle" /\ response[r] # << >>
    /\ response[1] = response[2]
    /\ frame_count[Solo] > 0
    /\ last_results[Solo] # << >>
    /\ recorded # {}

\* --------------------------------------------------------------------- C16
\* C16: a session's cached result is replaced only in an iteration whose
\* frame counter is a multiple of N when line 169 tests it; an iteration
\* with another counter, and an iteration whose capture raises, leave the
\* cached result as it was.
C16_CacheReplacedOnlyAtCadence ==
    [][ \A s \in Sessions :
          /\ last_results'[s] # last_results[s] =>
               pc[s] = "detect" /\ frame_count[s] % N = 0
          /\ (pc[s] = "detect" /\ frame_count[s] % N # 0 /\ pc'[s] # pc[s]) =>
               pc'[s] = "render" /\ last_results'[s] = last_results[s]
          /\ CaptureRaised(s) => last_results'[s] = last_results[s] ]_vars

\* The cache served frames 0 .. N-1 unchanged, was replaced at frame N, and
\* a later capture has just raised.
C16_Witness ==
    /\ Len(log[Solo]) > N
    /\ \A j \in 1 .. N : log[Solo][j].obj = log[Solo][1].obj
    /\ log[Solo][N + 1].obj # log[Solo][N].obj
    /\ pc[Solo] = "backoff" /\ fail_kind[Solo] = "capture"
    /\ ObjOf(last_results[Solo]) = log[Solo][N + 1].obj

\* --------------------------------------------------------------------- C17
\* The result holds a detection of the watched class at or above the
\* threshold.
Watched(lr) ==
    /\ lr # << >>
    /\ lr[1].has_boxes
    /\ \E i \in DOMAIN lr[1].boxes :
         lr[1].boxes[i].cls = bottle_class_id /\ lr[1].boxes[i].conf >= Threshold

\* C17: an iteration that reaches the render step goes on to write
\* bottle_last_seen if and only if the result it renders holds a detection
\* of the watched class with confidence >= 0.5; no write is made for a
\* result without one.
C17_WritesIffWatchedDetection ==
    [][ \A s \in Sessions :
          /\ (pc[s] = "render" /\ pc'[s] # "render") =>
               (pc'[s] = "lock" <=> Watched(last_results[s]))
          /\ WriteSeen(s) => Watched(last_results[s]) ]_vars

\* --------------------------------------------------------------------- C18
\* C18: within a session, an emitted chunk is followed by the delay of
\* 0.03 s before the next capture, and a failed iteration (capture,
\* inference, render or encoding) by the backoff of 0.5 s before the next
\* capture; no capture is attempted straight after a failure.
C18_DelayAfterChunkBackoffAfterFailure ==
    [][ \A s \in Sessions :
          \* a capture is attempted only at the start and after one of the sleeps
          /\ (pc'[s] = "capture" /\ pc[s] # "capture") =>
               \/ pc[s] = "idle"
               \/ pc[s] = "sleep" /\ slept'[s] = FrameDelay
               \/ pc[s] = "backoff" /\ slept'[s] = Backoff
          \* the delay is the one that follows an emitted chunk
          /\ pc[s] = "sleep" => Current(s).emitted /\ fail_kind[s] = "none"
          /\ (pc[s] = "suspended" /\ pc'[s] # "suspended") =>
               pc'[s] \in {"sleep", "closed"}
          \* a failure at any stage goes to the backoff
          /\ (pc[s] \in {"capture", "detect", "render", "encode"}
                /\ failures_left' # failures_left) =>
               pc'[s] = "backoff" /\ fail_kind'[s] # "none"
          /\ pc[s] = "backoff" => fail_kind[s] # "none" ]_vars

\* The first chunk was emitted and followed by the delay, a later iteration
\* failed, and the session is back at the capture after the backoff.
C18_Witness ==
    /\ Len(log[Solo]) >= 2
    /\ log[Solo][1].emitted
    /\ fail_kind[Solo] \in {"capture", "infer", "render", "encode"}
    /\ pc[Solo] = "capture"
    /\ slept[Solo] = Backoff

\* --------------------------------------------------------------------- C19
\* C19: a capture or an inference that raises leaves the session's frame
\* counter and cached result unchanged.  So after an inference failed at a
\* cadence boundary the session stays at that counter, counts no frame, and
\* calls the model again as soon as it is back at line 169; every counted
\* frame at a cadence boundary got its own result from a call that returned:
\* no boundary is skipped because of a failure.
C19_FailureKeepsCounterAndBoundary ==
    [][ \A s \in Sessions :
          /\ (CaptureRaised(s) \/ InferRaised(s)) =>
               /\ frame_count'[s] = frame_count[s]
               /\ last_results'[s] = last_results[s]
               /\ log'[s] = log[s]
          /\ pending_calls[s] > 0 =>
               /\ frame_count[s] % N = 0
               /\ pc[s] \in {"backoff", "capture", "detect"}
          /\ (pc[s] = "detect" /\ pending_calls[s] > 0 /\ pc'[s] # "detect") =>
               infer_calls'[s] = infer_calls[s] + 1
          /\ \A j \in DOMAIN log[s] :
               (j - 1) % N = 0 =>
                 /\ log[s][j].calls >= 1
                 /\ \A i \in 1 .. (j - 1) : log[s][i].obj # log[s][j].obj ]_vars

\* The inference at frame N raised once, was called again at the same
\* counter, returned, and the frame was emitted with the new result.
C19_Witness ==
    /\ Len(log[Solo]) > N
    /\ log[Solo][N + 1].calls = 2
    /\ log[Solo][N + 1].rendered = log[Solo][N + 1].obj
    /\ log[Solo][N + 1].emitted

\* --------------------------------------------------------------------- C20
\* C20: in every reachable state of a session a frame counter above zero
\* comes with a cached result, so every frame that was rendered, and every
\* frame that was emitted, was rendered against the result of a call of the
\* model that returned, never against the empty cache of line 154.
C20_CountedImpliesCached ==
    \A s \in Sessions :
        /\ frame_count[s] > 0 => last_results[s] # << >>
        /\ \A j \in DOMAIN log[s] :
             /\ log[s][j].obj > 0
             /\ log[s][j].rendered \in {0, log[s][j].obj}
             /\ log[s][j].emitted => log[s][j].rendered = log[s][j].obj

\* A frame between two cadence boundaries was rendered against the result
\* of frame 0 and emitted.
C20_Witness ==
    /\ frame_count[Solo] >= 2
    /\ Len(log[Solo]) >= 2
    /\ log[Solo][2].emitted
    /\ log[Solo][2].rendered = log[Solo][1].obj
    /\ log[Solo][1].obj > 0

====
